---- MODULE Spec2Model ----
(***************************************************************************)
(* A model of package pow's util.go (Konstantin35/powkit): the endianness  *)
(* and array helpers, the repetitive hasher and seedHash, the FNV mixer,   *)
(* the 32-bit integer operators and the KawPow randomMath / randomMerge.   *)
(*                                                                         *)
(* TLC's integers are 32-bit signed, so a Go uint32 is modelled as the     *)
(* sequence of its 32 bits, least significant first (w[1] is bit 0), and a *)
(* Go uint64 as the sequence of its 64 bits.  Arithmetic is carried out on *)
(* 8- and 16-bit limbs, which never overflow a TLC integer.                *)
(***************************************************************************)
EXTENDS Integers, Sequences, FiniteSets, TLC

VARIABLES
  \* ---- integer operators, randomMath, randomMerge
  op,        \* which function was last applied ("idle" before any)
  a, b,      \* its uint32 operands
  selector,  \* its uint32 selector
  branch,    \* the switch case taken (-1: fell through to the trailing return)
  x,         \* randomMerge's rotate amount
  result,    \* the uint32 it returned
  \* ---- fnvHash
  fnvPc,      \* "idle", "loop" (inside the for loop), "done", "panic"
  mix, data,  \* the two []uint32 arguments (distinct slices sharing no memory)
  fnvI,       \* the loop variable i
  mixBefore,  \* mix and data as they were when fnvHash was called
  dataBefore,
  \* ---- uint32Array2ByteArray, swap
  hostLE,      \* the host stores a uint32's least significant byte first
  bytesPc,     \* "idle", "serialized", "swapped"
  words,       \* the []uint32 argument c
  wordsBefore, \* c as it was at the call
  buf,         \* the []byte returned
  \* ---- makeHasher's hashers, their callers and seedHash
  oracle,      \* the inputs digested so far: byte <<i, k>> is byte k of the
               \* output of the sponge that absorbed oracle[i]
  hst,         \* the sha3 state rh captured by each hasher closure
  mem,         \* the contents of the byte slices, by name
  shared,      \* the two workers call one hasher (else each its own)
  cpc,         \* per caller: "new", "ready", "reset", "write", "read",
               \* "returned", "panic", "off"
  cdest,       \* per caller: the slice passed as dest
  cdata,       \* per caller: the slice passed as data
  dataAtCall,  \* per caller: the contents of data and of dest when the
  destAtCall,  \* call started
  calls,       \* per caller: the calls completed
  fault,       \* per caller: the panic raised ("none" if none)
  seedPc,      \* seedHash: "idle", "check", "make", "loop", "reset", "write",
               \* "read", "done", "panic"
  block,       \* seedHash's uint64 arguments
  epochLength,
  intBits,     \* the width of Go's int on the build: 32 or 64
  seedI,       \* seedHash's loop variable i
  seedFault    \* the panic seedHash raised ("none" if none)

mathVars == <<op, a, b, selector, branch, x, result>>

fnvVars == <<fnvPc, mix, data, fnvI, mixBefore, dataBefore>>

bytesVars == <<hostLE, bytesPc, words, wordsBefore, buf>>

callerVars == <<shared, cpc, cdest, cdata, dataAtCall, destAtCall, calls, fault>>

seedVars == <<seedPc, block, epochLength, intBits, seedI, seedFault>>

hashVars == <<oracle, hst, mem, callerVars, seedVars>>

vars == <<mathVars, fnvVars, bytesVars, hashVars>>

notMath == <<fnvVars, bytesVars, hashVars>>
notFnv == <<mathVars, bytesVars, hashVars>>
notBytes == <<mathVars, fnvVars, hashVars>>
notHash == <<mathVars, fnvVars, bytesVars>>

(***************************************************************************)
(* uint32 values as bit sequences                                          *)
(***************************************************************************)
WordBits == 32

RECURSIVE ValRec(_, _, _)
\* The number held by the n bits of w from bit lo upwards (n <= 30).
ValRec(w, lo, n) == IF n = 0 THEN 0 ELSE w[lo + 1] + 2 * ValRec(w, lo + 1, n - 1)

Lo16(w) == ValRec(w, 0, 16)
Hi16(w) == ValRec(w, 16, 16)
\* Byte k (0 = least significant) of a bit sequence.
ByteOf(w, k) == ValRec(w, 8 * k, 8)

\* The uint32 hi * 2^16 + lo.
W32(hi, lo) ==
  [i \in 1..WordBits |-> IF i <= 16 THEN (lo \div 2^(i - 1)) % 2
                                    ELSE (hi \div 2^(i - 17)) % 2]

\* uint32(n) of a small non-negative integer.
U32(n) == W32(n \div 65536, n % 65536)

\* The uint32 whose bytes are bs[1] (least significant) .. bs[4].
FromBytes(bs) ==
  [i \in 1..WordBits |-> (bs[((i - 1) \div 8) + 1] \div 2^((i - 1) % 8)) % 2]

\* Go's a + b on uint32: the sum modulo 2^32.
Add32(u, v) ==
  LET lo == Lo16(u) + Lo16(v)
      hi == Hi16(u) + Hi16(v) + (lo \div 65536)
  IN  W32(hi % 65536, lo % 65536)

\* Go's a - b on uint32: the difference modulo 2^32.
Sub32(u, v) ==
  LET lo == Lo16(u) - Lo16(v)
      bw == IF lo < 0 THEN 1 ELSE 0
      hi == Hi16(u) - Hi16(v) - bw
  IN  W32((hi + 65536) % 65536, (lo + 65536) % 65536)

\* Column k (0..6) of the schoolbook product of two 4-byte numbers.
MulColumn(u, v, k) ==
  LET prod(i) == IF k - i >= 0 /\ k - i <= 3 THEN ByteOf(u, i) * ByteOf(v, k - i) ELSE 0
  IN  prod(0) + prod(1) + prod(2) + prod(3)

RECURSIVE MulBytes(_, _, _, _)
\* The bytes k..7 of the 64-bit product, given the carry into column k.
MulBytes(u, v, k, carry) ==
  IF k = 8 THEN <<>>
  ELSE LET s == (IF k <= 6 THEN MulColumn(u, v, k) ELSE 0) + carry
       IN  <<s % 256>> \o MulBytes(u, v, k + 1, s \div 256)

\* uint64(a) * uint64(b): the eight bytes of the full product.
Mul64(u, v) == MulBytes(u, v, 0, 0)

\* Go's a * b on uint32: the low 32 bits of the product.
Mul32(u, v) == FromBytes(SubSeq(Mul64(u, v), 1, 4))

And32(u, v) == [i \in 1..WordBits |-> u[i] * v[i]]
Or32(u, v)  == [i \in 1..WordBits |-> IF u[i] + v[i] > 0 THEN 1 ELSE 0]
Xor32(u, v) == [i \in 1..WordBits |-> (u[i] + v[i]) % 2]

\* A shift count given as a uint32: its value when below 32, else 32 (Go shifts
\* a uint32 by 32 or more to zero).
ShiftCount(s) ==
  IF \E i \in 6..WordBits : s[i] = 1 THEN WordBits ELSE ValRec(s, 0, 5)

\* Go's a << s and a >> s on uint32, s an integer count.
Shl32(u, s) == [i \in 1..WordBits |-> IF i - s >= 1 THEN u[i - s] ELSE 0]
Shr32(u, s) == [i \in 1..WordBits |-> IF i + s <= WordBits THEN u[i + s] ELSE 0]

\* Go's a > b on uint32.
RECURSIVE GtFrom(_, _, _)
GtFrom(u, v, i) ==
  IF i = 0 THEN FALSE
  ELSE IF u[i] # v[i] THEN u[i] > v[i]
  ELSE GtFrom(u, v, i - 1)
Gt32(u, v) == GtFrom(u, v, WordBits)

\* Go's a % m on uint32 for a small modulus m, as an integer.
Mod32(u, m) ==
  LET r3 == ByteOf(u, 3) % m
      r2 == (r3 * 256 + ByteOf(u, 2)) % m
      r1 == (r2 * 256 + ByteOf(u, 1)) % m
  IN  (r1 * 256 + ByteOf(u, 0)) % m

(***************************************************************************)
(* Math utils (util.go, "Math utils" and "kawpow utils")                   *)
(***************************************************************************)
FNV_PRIME == W32(256, 403)            \* 0x01000193
FNV_OFFSET_BASIS == W32(33052, 40389) \* 0x811c9dc5

minUint32(u, v) == IF Gt32(u, v) THEN v ELSE u

\* fnv1 computing FNV-1a instead: (u ^ v) * FNV_PRIME.
fnv1_as_fnv1a(u, v) == Mul32(Xor32(u, v), FNV_PRIME)

fnv1(u, v) == Xor32(Mul32(u, FNV_PRIME), v)

fnv1a(u, v) == Mul32(Xor32(u, v), FNV_PRIME)

\* rotl32 with the right shift's count left unmasked: a>>(32-b).
rotl32_unmasked(u, v) ==
  Or32(Shl32(u, ShiftCount(And32(v, U32(31)))),
       Shr32(u, ShiftCount(Sub32(U32(32), v))))

rotl32(u, v) ==
  Or32(Shl32(u, ShiftCount(And32(v, U32(31)))),
       Shr32(u, ShiftCount(And32(Sub32(U32(32), v), U32(31)))))

\* rotr32 with the two shift counts exchanged (it rotates left).
rotr32_exchanged(u, v) ==
  Or32(Shl32(u, ShiftCount(And32(v, U32(31)))),
       Shr32(u, ShiftCount(And32(Sub32(U32(32), v), U32(31)))))

rotr32(u, v) ==
  Or32(Shl32(u, ShiftCount(And32(Sub32(U32(32), v), U32(31)))),
       Shr32(u, ShiftCount(And32(v, U32(31)))))

RECURSIVE LeadingZeros(_, _)
\* bits.LeadingZeros32: the zero bits above the highest set bit, from bit i - 1 down.
LeadingZeros(u, i) ==
  IF i = 0 \/ u[i] = 1 THEN 0 ELSE 1 + LeadingZeros(u, i - 1)

RECURSIVE OnesCount(_, _)
\* bits.OnesCount32: the set bits among bits 0 .. i - 1.
OnesCount(u, i) == IF i = 0 THEN 0 ELSE u[i] + OnesCount(u, i - 1)

clz32(u) == U32(LeadingZeros(u, WordBits))

popcount32(u) == U32(OnesCount(u, WordBits))

mul_hi32(u, v) == FromBytes(SubSeq(Mul64(u, v), 5, 8))

\* The case of randomMath's switch that is taken (-1: none, the trailing return).
randomMathBranch(sel) ==
  LET s == Mod32(sel, 11) IN IF s \in 0..10 THEN s ELSE -1

\* randomMath with the cases 4 and 5 exchanged.
randomMath_exchanged(u, v, sel) ==
  LET s == randomMathBranch(sel)
  IN  CASE s = 0 -> Add32(u, v)
        [] s = 1 -> Mul32(u, v)
        [] s = 2 -> mul_hi32(u, v)
        [] s = 3 -> minUint32(u, v)
        [] s = 4 -> rotr32(u, v)
        [] s = 5 -> rotl32(u, v)
        [] s = 6 -> And32(u, v)
        [] s = 7 -> Or32(u, v)
        [] s = 8 -> Xor32(u, v)
        [] s = 9 -> Add32(clz32(u), clz32(v))
        [] s = 10 -> Add32(popcount32(u), popcount32(v))
        [] OTHER -> U32(0)

randomMath(u, v, sel) ==
  LET s == randomMathBranch(sel)
  IN  CASE s = 0 -> Add32(u, v)
        [] s = 1 -> Mul32(u, v)
        [] s = 2 -> mul_hi32(u, v)
        [] s = 3 -> minUint32(u, v)
        [] s = 4 -> rotl32(u, v)
        [] s = 5 -> rotr32(u, v)
        [] s = 6 -> And32(u, v)
        [] s = 7 -> Or32(u, v)
        [] s = 8 -> Xor32(u, v)
        [] s = 9 -> Add32(clz32(u), clz32(v))
        [] s = 10 -> Add32(popcount32(u), popcount32(v))
        [] OTHER -> U32(0)

\* The rotate amount without the + 1: (selector >> 16) % 31.
randomMergeX_noinc(sel) == U32(Mod32(Shr32(sel, 16), 31))

\* x := ((selector >> 16) % 31) + 1
randomMergeX(sel) == Add32(U32(Mod32(Shr32(sel, 16), 31)), U32(1))

randomMergeBranch(sel) ==
  LET s == Mod32(sel, 4) IN IF s \in 0..3 THEN s ELSE -1

randomMerge(u, v, sel) ==
  LET xx == randomMergeX(sel)
      s == randomMergeBranch(sel)
  IN  CASE s = 0 -> Add32(Mul32(u, U32(33)), v)
        [] s = 1 -> Mul32(Xor32(u, v), U32(33))
        [] s = 2 -> Xor32(rotl32(u, xx), v)
        [] s = 3 -> Xor32(rotr32(u, xx), v)
        [] OTHER -> U32(0)

(***************************************************************************)
(* OS and array utils (util.go, lines 33-52 and 135-140)                   *)
(***************************************************************************)
\* The four bytes of a uint32 in the host's memory, lowest address first.
Memory(n) ==
  IF hostLE THEN <<ByteOf(n, 0), ByteOf(n, 1), ByteOf(n, 2), ByteOf(n, 3)>>
            ELSE <<ByteOf(n, 3), ByteOf(n, 2), ByteOf(n, 1), ByteOf(n, 0)>>

\* isLittleEndian comparing the first byte with 0x01 instead of 0x04.
isLittleEndian_01 == Memory(W32(258, 772))[1] = 1

\* n := uint32(0x01020304); *(*byte)(unsafe.Pointer(&n)) == 0x04
isLittleEndian == Memory(W32(258, 772))[1] = 4

\* binary.LittleEndian.PutUint32 and binary.BigEndian.PutUint32: the bytes written.
LittleEndianPutUint32(v) == <<ByteOf(v, 0), ByteOf(v, 1), ByteOf(v, 2), ByteOf(v, 3)>>
BigEndianPutUint32(v) == <<ByteOf(v, 3), ByteOf(v, 2), ByteOf(v, 1), ByteOf(v, 0)>>

\* binary.LittleEndian.Uint32 of the four bytes bs.
LittleEndianUint32(bs) == FromBytes(bs)

\* buffer with the four bytes bs written at offset off (0-based).
WriteAt(buffer, off, bs) ==
  [j \in 1..Len(buffer) |->
     IF j > off /\ j <= off + 4 THEN bs[j - off] ELSE buffer[j]]

RECURSIVE PutWords(_, _, _, _)
\* The range loop of uint32Array2ByteArray from index i (0-based) on.
PutWords(buffer, c, i, little) ==
  IF i >= Len(c) THEN buffer
  ELSE PutWords(WriteAt(buffer, i * 4,
                        IF little THEN LittleEndianPutUint32(c[i + 1])
                                  ELSE BigEndianPutUint32(c[i + 1])),
                c, i + 1, little)

uint32Array2ByteArray(c) ==
  LET made == [j \in 1..(Len(c) * 4) |-> 0]
  IN  IF isLittleEndian THEN PutWords(made, c, 0, TRUE)
                        ELSE PutWords(made, c, 0, FALSE)

RECURSIVE swapFrom(_, _)
\* The loop of swap from offset i on.
swapFrom(buffer, i) ==
  IF i >= Len(buffer) THEN buffer
  ELSE swapFrom(WriteAt(buffer, i,
                        BigEndianPutUint32(LittleEndianUint32(SubSeq(buffer, i + 1, i + 4)))),
                i + 4)

swap(buffer) == swapFrom(buffer, 0)

(***************************************************************************)
(* uint64 values as sequences of 64 bits, least significant first          *)
(***************************************************************************)
LongBits == 64

\* uint64(n) of a non-negative integer below 2^31.
U64(n) == [i \in 1..LongBits |-> IF i <= 31 THEN (n \div 2^(i - 1)) % 2 ELSE 0]

\* The uint64 2^k.
Pow2(k) == [i \in 1..LongBits |-> IF i = k + 1 THEN 1 ELSE 0]

MaxUint64 == [i \in 1..LongBits |-> 1]

RECURSIVE LtFrom(_, _, _)
\* u < v on two bit sequences of one length, deciding from bit i - 1 down.
LtFrom(u, v, i) ==
  IF i = 0 THEN FALSE
  ELSE IF u[i] # v[i] THEN u[i] < v[i]
  ELSE LtFrom(u, v, i - 1)

\* Go's block < epochLength on uint64.
Lt64(u, v) == LtFrom(u, v, LongBits)

RECURSIVE SubFrom(_, _, _, _)
\* The bits i .. of u - v (u >= v), given the borrow into bit i.
SubFrom(u, v, i, borrow) ==
  IF i > Len(u) THEN <<>>
  ELSE LET d == u[i] - v[i] - borrow
       IN  <<(d + 2) % 2>> \o SubFrom(u, v, i + 1, IF d < 0 THEN 1 ELSE 0)

\* One step of long division: the remainder rem (65 bits) takes in the next
\* bit of the dividend and gives up the divisor if it can: <<remainder, quotient bit>>.
DivStep(bit, v, rem) ==
  LET r2 == <<bit>> \o SubSeq(rem, 1, LongBits)
      v65 == v \o <<0>>
  IN  IF LtFrom(r2, v65, LongBits + 1) THEN <<r2, 0>>
      ELSE <<SubFrom(r2, v65, 1, 0), 1>>

RECURSIVE DivRange(_, _, _, _, _)
\* Long division over the dividend's bits hi down to lo (1-based), given the
\* remainder rem left by the bits above hi: <<remainder, quotient bits lo..hi>>.
\* The range is halved rather than walked, which keeps the evaluation shallow.
DivRange(u, v, hi, lo, rem) ==
  IF hi = lo
  THEN LET st == DivStep(u[hi], v, rem) IN <<st[1], <<st[2]>>>>
  ELSE LET mid == (hi + lo) \div 2
       IN  CHOOSE r \in UNION {{<<low[1], low[2] \o up[2]>> :
                                    low \in {DivRange(u, v, mid, lo, up[1])}} :
                                  up \in {DivRange(u, v, hi, mid + 1, rem)}} : TRUE

\* Go's u / v on uint64, v # 0.
Div64(u, v) == DivRange(u, v, LongBits, 1, [i \in 1..(LongBits + 1) |-> 0])[2]

\* Go's i < int(q) for an int i >= 0 and a uint64 q: int(q) keeps q's low
\* intBits bits and reads them as a two's complement number.
LessThanInt(i, q) ==
  IF intBits = 64
  THEN q[64] = 0 /\ LtFrom(U64(i), q, LongBits)
  ELSE q[32] = 0 /\ i < ValRec(q, 0, 31)

(***************************************************************************)
(* Hash utils (util.go, lines 65-115).  A byte of a hashed buffer is a    *)
(* pair: <<0, v>> is the literal byte v, and <<i, k>>, i >= 1, is byte k   *)
(* of the output of the Keccak sponge that absorbed oracle[i].  Distinct   *)
(* inputs have distinct outputs (no collisions).                           *)
(***************************************************************************)
Lit(v) == <<0, v>>

Zeros(n) == [k \in 1..n |-> Lit(0)]

\* hash.Hash's Size(): the digest length of the algorithm.
Size(alg) == IF alg = "keccak512" THEN 64 ELSE 32

\* Whether the hash.Hash has a Read method (sha3's state has; "plain" stands
\* for a hash.Hash without one, such as sha256's digest).
HasRead(alg) == alg \in {"keccak256", "keccak512"}

NoHasher == [alg |-> "none", absorbed |-> <<>>, squeezing |-> FALSE, off |-> 0]

\* sha3.NewLegacyKeccak256() / sha3.NewLegacyKeccak512(): a sponge that absorbed nothing.
NewHash(alg) == [alg |-> alg, absorbed |-> <<>>, squeezing |-> FALSE, off |-> 0]

\* The index of <<alg, input>> in the oracle orc, 0 when it is not there.
DigestId(orc, alg, input) ==
  IF \E i \in 1..Len(orc) : orc[i] = <<alg, input>>
  THEN CHOOSE i \in 1..Len(orc) : orc[i] = <<alg, input>>
  ELSE 0

\* The oracle after the sponge h is squeezed.
Squeezed(orc, h) ==
  IF DigestId(orc, h.alg, h.absorbed) = 0 THEN Append(orc, <<h.alg, h.absorbed>>) ELSE orc

\* rh.Reset()
hashReset(h) == [h EXCEPT !.absorbed = <<>>, !.squeezing = FALSE, !.off = 0]

\* rh.Write(data), on a sponge that is still absorbing
hashWrite(h, p) == [h EXCEPT !.absorbed = @ \o p]

\* rh.Read(out), len(out) = n: the sponge afterwards
hashRead(h, n) == [h EXCEPT !.squeezing = TRUE, !.off = @ + n]

\* rh.Read(out), len(out) = n: the bytes read, with the oracle orc already
\* holding the sponge's input.
hashOutput(orc, h, n) ==
  [k \in 1..n |-> <<DigestId(orc, h.alg, h.absorbed), h.off + k - 1>>]

\* d := sha3.NewLegacyKeccak256(); d.Write(b); return d.Sum(nil) -- the one-shot
\* digest of b, for an oracle that holds b (Sum gives the bytes a first Read gives).
OneShot(orc, alg, bs) == hashOutput(orc, hashWrite(NewHash(alg), bs), Size(alg))

Keccak256(orc, bs) == OneShot(orc, "keccak256", bs)

Keccak512(orc, bs) == OneShot(orc, "keccak512", bs)

\* dest after rh.Read(dest[:outputLen]): its first outputLen bytes replaced.
readInto(dest, out) ==
  [k \in 1..Len(dest) |-> IF k <= Len(out) THEN out[k] ELSE dest[k]]

Callers == {1, 2}

\* The slot of hst that holds seedHash's hasher.
SeedInst == 3

NoMem ==
  [s |-> <<>>, t |-> <<>>, d |-> <<>>, e |-> <<>>, seed |-> <<>>,
   i1 |-> <<>>, i2 |-> <<>>, o1 |-> <<>>, o2 |-> <<>>]

CallersIdle ==
  /\ cdest = <<"s", "s">>
  /\ cdata = <<"s", "s">>
  /\ dataAtCall = <<<<>>, <<>>>>
  /\ destAtCall = <<<<>>, <<>>>>
  /\ calls = <<0, 0>>
  /\ fault = <<"none", "none">>

SeedIdle ==
  /\ seedPc = "idle"
  /\ block = U64(0)
  /\ epochLength = U64(0)
  /\ seedI = 0
  /\ seedFault = "none"

\* No hasher exists and no caller runs.
HashIdle ==
  /\ oracle = <<>>
  /\ hst = <<NoHasher, NoHasher, NoHasher>>
  /\ mem = NoMem
  /\ shared = FALSE
  /\ cpc = <<"off", "off">>
  /\ CallersIdle
  /\ SeedIdle
  /\ intBits = 64

(***************************************************************************)
(* The integer operators and the KawPow operators applied to sample words. *)
(***************************************************************************)
MaxShift == 33
MaxSel == 12
MaxSelHi == 32

AllOnes == W32(65535, 65535)

WordSamples ==
  {U32(0), U32(1), U32(3), U32(5), W32(32768, 1), W32(4660, 43981), AllOnes}

\* Rotate amounts: 0 .. MaxShift, and large ones (64, 2^32 - 32, 2^32 - 1).
ShiftSamples ==
  {U32(k) : k \in 0..MaxShift} \cup {U32(64), W32(65535, 65504), AllOnes}

MathSelectors ==
  {U32(k) : k \in 0..MaxSel} \cup {W32(1, 0), W32(65535, 65534), AllOnes}

MergeSelectors ==
  {W32(h, l) : h \in (0..MaxSelHi) \cup {65535}, l \in (0..3) \cup {65535}}

\* All the sequences over S of length at most n.
SeqsUpTo(S, n) == UNION {[1..k -> S] : k \in 0..n}

FnvIdle ==
  /\ fnvPc = "idle"
  /\ mix = <<>>
  /\ data = <<>>
  /\ fnvI = 0
  /\ mixBefore = <<>>
  /\ dataBefore = <<>>

BytesIdle ==
  /\ bytesPc = "idle"
  /\ words = <<>>
  /\ wordsBefore = <<>>
  /\ buf = <<>>

MathIdle ==
  /\ op = "idle"
  /\ a = U32(0)
  /\ b = U32(0)
  /\ selector = U32(0)
  /\ branch = 0
  /\ x = U32(0)
  /\ result = U32(0)

RandomMath ==
  /\ op = "idle"
  /\ \E u \in WordSamples, v \in WordSamples, sel \in MathSelectors :
       /\ a' = u
       /\ b' = v
       /\ selector' = sel
       /\ branch' = randomMathBranch(sel)
       /\ result' = randomMath(u, v, sel)
  /\ op' = "randomMath"
  /\ UNCHANGED <<x, notMath>>

RandomMerge ==
  /\ op = "idle"
  /\ \E u \in {U32(1), W32(32768, 1), W32(4660, 43981), AllOnes},
        v \in {U32(0), U32(5), AllOnes}, sel \in MergeSelectors :
       /\ a' = u
       /\ b' = v
       /\ selector' = sel
       /\ branch' = randomMergeBranch(sel)
       /\ x' = randomMergeX(sel)
       /\ result' = randomMerge(u, v, sel)
  /\ op' = "randomMerge"
  /\ UNCHANGED notMath

Rotl ==
  /\ op = "idle"
  /\ \E u \in WordSamples, k \in ShiftSamples :
       /\ a' = u
       /\ b' = k
       /\ result' = rotl32(u, k)
  /\ op' = "rotl32"
  /\ UNCHANGED <<selector, branch, x, notMath>>

Rotr ==
  /\ op = "idle"
  /\ \E u \in WordSamples, k \in ShiftSamples :
       /\ a' = u
       /\ b' = k
       /\ result' = rotr32(u, k)
  /\ op' = "rotr32"
  /\ UNCHANGED <<selector, branch, x, notMath>>

\* rotr32 applied to what rotl32 returned, with the same rotate amount.
RotrBack ==
  /\ op = "rotl32"
  /\ result' = rotr32(result, b)
  /\ op' = "rotl32_rotr32"
  /\ UNCHANGED <<a, b, selector, branch, x, notMath>>

\* The caller is done with the value and may apply another operator.
MathReturn ==
  /\ op \in {"randomMath", "randomMerge", "rotr32", "rotl32_rotr32"}
  /\ op' = "idle"
  /\ a' = U32(0)
  /\ b' = U32(0)
  /\ selector' = U32(0)
  /\ branch' = 0
  /\ x' = U32(0)
  /\ result' = U32(0)
  /\ UNCHANGED notMath

MathNext ==
  \/ RandomMath
  \/ RandomMerge
  \/ Rotl
  \/ Rotr
  \/ RotrBack
  \/ MathReturn

InitMath == MathIdle /\ FnvIdle /\ BytesIdle /\ hostLE = TRUE /\ HashIdle

SpecMath == InitMath /\ [][MathNext]_vars

(***************************************************************************)
(* Claims about the integer and KawPow operators                           *)
(***************************************************************************)
\* The rotations as the specification writes them:
\* rotl(a, b) = (a << (b mod 32)) | (a >> ((32 - (b mod 32)) mod 32)).
SpecRotl(u, v) ==
  LET k == Mod32(v, 32) IN Or32(Shl32(u, k), Shr32(u, (32 - k) % 32))

SpecRotr(u, v) ==
  LET k == Mod32(v, 32) IN Or32(Shl32(u, (32 - k) % 32), Shr32(u, k))

\* The operation the specification's table gives for selector mod 11.
MathTable(u, v, s) ==
  CASE s = 0 -> Add32(u, v)
    [] s = 1 -> FromBytes(SubSeq(Mul64(u, v), 1, 4))
    [] s = 2 -> FromBytes(SubSeq(Mul64(u, v), 5, 8))
    [] s = 3 -> IF Gt32(u, v) THEN v ELSE u
    [] s = 4 -> SpecRotl(u, v)
    [] s = 5 -> SpecRotr(u, v)
    [] s = 6 -> [i \in 1..32 |-> IF u[i] = 1 /\ v[i] = 1 THEN 1 ELSE 0]
    [] s = 7 -> [i \in 1..32 |-> IF u[i] = 1 \/ v[i] = 1 THEN 1 ELSE 0]
    [] s = 8 -> [i \in 1..32 |-> IF u[i] # v[i] THEN 1 ELSE 0]
    [] s = 9 -> U32(LeadingZeros(u, 32) + LeadingZeros(v, 32))
    [] s = 10 -> U32(OnesCount(u, 32) + OnesCount(v, 32))

\* C6: randomMath(a, b, selector) is the operation of the table selected by
\* selector mod 11, with add and multiply modulo 2^32; one of the eleven
\* branches is taken for every selector (the trailing return is not reached);
\* randomMath(5, 3, 0) = 8, randomMath(5, 3, 1) = 15, randomMath(0xFFFFFFFF, 1, 0) = 0.
C6_RandomMathTable ==
  op = "randomMath" =>
    /\ branch \in 0..10
    /\ branch = Mod32(selector, 11)
    /\ result = MathTable(a, b, Mod32(selector, 11))
    /\ (a = U32(5) /\ b = U32(3) /\ selector = U32(0)) => result = U32(8)
    /\ (a = U32(5) /\ b = U32(3) /\ selector = U32(1)) => result = U32(15)
    /\ (a = AllOnes /\ b = U32(1) /\ selector = U32(0)) => result = U32(0)

\* C6 witness: the wraparound add randomMath(0xFFFFFFFF, 1, 0) has been evaluated.
C6_Witness ==
  op = "randomMath" /\ a = AllOnes /\ b = U32(1) /\ selector = U32(0) /\ result = U32(0)

\* C7: randomMerge's rotate amount x = ((selector >> 16) mod 31) + 1 lies in 1..31,
\* and the result is the operation selected by selector mod 4: (a*33)+b,
\* (a XOR b)*33, rotl(a, x) XOR b, rotr(a, x) XOR b, modulo 2^32; selector
\* 0x00010000 gives x = 2 and branch 0.
C7_RandomMergeTable ==
  op = "randomMerge" =>
    LET xi == ValRec(x, 0, 16)
        s == Mod32(selector, 4)
    IN  /\ x = U32(xi)
        /\ xi \in 1..31
        /\ xi = (Hi16(selector) % 31) + 1
        /\ branch = s
        /\ result = CASE s = 0 -> Add32(Mul32(a, U32(33)), b)
                      [] s = 1 -> Mul32(Xor32(a, b), U32(33))
                      [] s = 2 -> Xor32(SpecRotl(a, U32(xi)), b)
                      [] s = 3 -> Xor32(SpecRotr(a, U32(xi)), b)
        /\ selector = W32(1, 0) => (xi = 2 /\ branch = 0)

\* C7 witness: a rotating branch was taken with the largest rotate amount, 31.
C7_Witness ==
  op = "randomMerge" /\ branch = 2 /\ x = U32(31) /\ a = W32(32768, 1)

\* C8: rotr(rotl(a, k), k) = a for every a and every k in 0..31.
C8_RotateRoundTrip ==
  (op = "rotl32_rotr32" /\ \E k \in 0..31 : b = U32(k)) => result = a

\* C8 witness: a word with both end bits set went through rotl and rotr by 31.
C8_Witness ==
  op = "rotl32_rotr32" /\ b = U32(31) /\ a = W32(32768, 1) /\ result = a

\* C10: for every a and b (b = 0, b a multiple of 32 and b >= 32 included) the
\* code's rotl32 and rotr32 equal the specification's rotl and rotr; a rotation
\* by a multiple of 32 returns a.
C10_RotateMatchesSpec ==
  /\ op = "rotl32" => result = SpecRotl(a, b)
  /\ op = "rotr32" => result = SpecRotr(a, b)
  /\ (op \in {"rotl32", "rotr32"} /\ Mod32(b, 32) = 0) => result = a

\* C10 witness: a rotation by 33 (>= 32, where 32 - b wraps) of 0x80000001.
C10_Witness ==
  op = "rotl32" /\ b = U32(33) /\ a = W32(32768, 1) /\ result = U32(3)

(***************************************************************************)
(* fnvHash (util.go, lines 153-157), one action per step of its loop       *)
(***************************************************************************)
MaxMixLen == 2
MaxDataLen == 3

MixWords == {U32(1), U32(2), AllOnes}
DataWords == {U32(3), U32(4), FNV_OFFSET_BASIS}

\* fnvHash(mix, data) is called: i := 0.
FnvCall ==
  /\ fnvPc = "idle"
  /\ \E m \in SeqsUpTo(MixWords, MaxMixLen), d \in SeqsUpTo(DataWords, MaxDataLen) :
       /\ mix' = m
       /\ data' = d
       /\ mixBefore' = m
       /\ dataBefore' = d
  /\ fnvI' = 0
  /\ fnvPc' = "loop"
  /\ UNCHANGED notFnv

\* One pass of the loop body: mix[i] = fnv1(mix[i], data[i]); i++.  Reading
\* data[i] past the end of data is Go's index-out-of-range panic.
FnvStep ==
  /\ fnvPc = "loop"
  /\ fnvI < Len(mix)
  /\ IF fnvI >= Len(data)
     THEN /\ fnvPc' = "panic"
          /\ UNCHANGED <<mix, fnvI>>
     ELSE /\ mix' = [mix EXCEPT ![fnvI + 1] = fnv1(mix[fnvI + 1], data[fnvI + 1])]
          /\ fnvI' = fnvI + 1
          /\ UNCHANGED fnvPc
  /\ UNCHANGED <<data, mixBefore, dataBefore, notFnv>>

\* The loop condition i < len(mix) fails: fnvHash returns.
FnvExit ==
  /\ fnvPc = "loop"
  /\ fnvI >= Len(mix)
  /\ fnvPc' = "done"
  /\ UNCHANGED <<mix, data, fnvI, mixBefore, dataBefore, notFnv>>

\* The caller goes on (after a return or a recovered panic).
FnvReturn ==
  /\ fnvPc \in {"done", "panic"}
  /\ fnvPc' = "idle"
  /\ mix' = <<>>
  /\ data' = <<>>
  /\ fnvI' = 0
  /\ mixBefore' = <<>>
  /\ dataBefore' = <<>>
  /\ UNCHANGED notFnv

FnvNext ==
  \/ FnvCall
  \/ FnvStep
  \/ FnvExit
  \/ FnvReturn

InitFnv == MathIdle /\ FnvIdle /\ BytesIdle /\ hostLE = TRUE /\ HashIdle

SpecFnv == InitFnv /\ [][FnvNext]_vars

\* C5: when len(data) >= len(mix), fnvHash leaves every mix[i] equal to
\* ((mixBefore[i] * 0x01000193) mod 2^32) XOR data[i], leaves data unchanged
\* (its words at index >= len(mix) too) and changes neither length;
\* fnvHash([1, 2], [3, 4]) leaves mix = [0x01000190, 0x02000322].
C5_FnvElementwise ==
  (fnvPc = "done" /\ Len(dataBefore) >= Len(mixBefore)) =>
    /\ Len(mix) = Len(mixBefore)
    /\ \A i \in 1..Len(mixBefore) :
         mix[i] = Xor32(Mul32(mixBefore[i], W32(256, 403)), dataBefore[i])
    /\ data = dataBefore
    /\ (mixBefore = <<U32(1), U32(2)>> /\ dataBefore = <<U32(3), U32(4)>>)
         => mix = <<W32(256, 400), W32(512, 802)>>

\* C5 witness: fnvHash returned for a mix of two words and a longer data.
C5_Witness ==
  /\ fnvPc = "done"
  /\ Len(mixBefore) = 2
  /\ Len(dataBefore) = 3
  /\ mix # mixBefore
  /\ mixBefore[1] = AllOnes

(***************************************************************************)
(* uint32Array2ByteArray and swap applied to sample slices                 *)
(***************************************************************************)
MaxWords == 3

ByteWords == {U32(0), W32(258, 772), W32(32768, 1), AllOnes}

Serialize ==
  /\ bytesPc = "idle"
  /\ \E c \in SeqsUpTo(ByteWords, MaxWords) :
       /\ words' = c
       /\ wordsBefore' = c
       /\ buf' = uint32Array2ByteArray(c)
  /\ bytesPc' = "serialized"
  /\ UNCHANGED <<hostLE, notBytes>>

\* swap(buf) on the returned buffer.
Swap ==
  /\ bytesPc = "serialized"
  /\ buf' = swap(buf)
  /\ bytesPc' = "swapped"
  /\ UNCHANGED <<hostLE, words, wordsBefore, notBytes>>

BytesReturn ==
  /\ bytesPc \in {"serialized", "swapped"}
  /\ bytesPc' = "idle"
  /\ words' = <<>>
  /\ wordsBefore' = <<>>
  /\ buf' = <<>>
  /\ UNCHANGED <<hostLE, notBytes>>

BytesNext ==
  \/ Serialize
  \/ Swap
  \/ BytesReturn

\* The program runs on a little-endian or on a big-endian host.
InitBytes == MathIdle /\ FnvIdle /\ BytesIdle /\ hostLE \in BOOLEAN /\ HashIdle

SpecBytes == InitBytes /\ [][BytesNext]_vars

\* Word w's four bytes in the host's order, from its value w = hi * 2^16 + lo.
HostOrder(w) ==
  LET lo == Lo16(w)
      hi == Hi16(w)
      le == <<lo % 256, lo \div 256, hi % 256, hi \div 256>>
  IN  IF hostLE THEN le ELSE <<le[4], le[3], le[2], le[1]>>

\* The 32-bit word read from four bytes in the host's order.
ReadHostOrder(bs) ==
  IF hostLE THEN W32(bs[4] * 256 + bs[3], bs[2] * 256 + bs[1])
            ELSE W32(bs[1] * 256 + bs[2], bs[3] * 256 + bs[4])

\* C9: for every word sequence, the empty one included, uint32Array2ByteArray
\* returns 4 * len(words) bytes, bytes 4i..4i+3 holding word i in the host's byte
\* order; reading them back as words in that order gives the original sequence;
\* the input is not modified.
C9_WordsToBytesRoundTrip ==
  bytesPc = "serialized" =>
    /\ Len(buf) = 4 * Len(wordsBefore)
    /\ \A i \in 1..Len(wordsBefore) :
         /\ SubSeq(buf, 4 * i - 3, 4 * i) = HostOrder(wordsBefore[i])
         /\ ReadHostOrder(SubSeq(buf, 4 * i - 3, 4 * i)) = wordsBefore[i]
    /\ isLittleEndian = hostLE
    /\ words = wordsBefore

\* C9 witness: 0x01020304 was serialized second of three words on a big-endian host.
C9_Witness ==
  /\ bytesPc = "serialized"
  /\ ~hostLE
  /\ Len(wordsBefore) = 3
  /\ wordsBefore[2] = W32(258, 772)
  /\ SubSeq(buf, 5, 8) = <<1, 2, 3, 4>>

(***************************************************************************)
(* makeHasher and the hasher it returns (util.go, lines 84-101), one       *)
(* action per call the closure makes on rh                                 *)
(***************************************************************************)
MaxCalls == 2

\* The hash.Hash values handed to makeHasher.
Algs == {"keccak256", "keccak512", "plain"}

\* Every caller handed the first hasher.
InstanceOf_first(w) == 1

\* The hasher a caller calls: its own, or the one both share.
InstanceOf(w) == IF shared THEN 1 ELSE w

\* The hash.Hash is handed to makeHasher, which panics when it has no Read.
MakeHasher(w) ==
  /\ cpc[w] = "new"
  /\ seedPc = "idle"
  /\ \E alg \in Algs :
       /\ hst' = [hst EXCEPT ![InstanceOf(w)] = NewHash(alg)]
       /\ IF HasRead(alg)
          THEN /\ cpc' = [cpc EXCEPT ![w] = "ready"]
               /\ UNCHANGED fault
          ELSE /\ cpc' = [cpc EXCEPT ![w] = "panic"]
               /\ fault' = [fault EXCEPT ![w] = "can't find Read method on hash"]
  /\ UNCHANGED <<oracle, mem, shared, cdest, cdata, dataAtCall, destAtCall, calls,
                 seedVars, notHash>>

\* The hasher is called as hash(dest, data) with two of the slices.
HashCall(w, dests, datas) ==
  /\ cpc[w] = "ready"
  /\ calls[w] < MaxCalls
  /\ \E dst \in dests, src \in datas :
       /\ cdest' = [cdest EXCEPT ![w] = dst]
       /\ cdata' = [cdata EXCEPT ![w] = src]
       /\ destAtCall' = [destAtCall EXCEPT ![w] = mem[dst]]
       /\ dataAtCall' = [dataAtCall EXCEPT ![w] = mem[src]]
  /\ cpc' = [cpc EXCEPT ![w] = "reset"]
  /\ UNCHANGED <<oracle, hst, mem, shared, calls, fault, seedVars, notHash>>

\* rh.Reset()
HashReset(w) ==
  /\ cpc[w] = "reset"
  /\ hst' = [hst EXCEPT ![InstanceOf(w)] = hashReset(@)]
  /\ cpc' = [cpc EXCEPT ![w] = "write"]
  /\ UNCHANGED <<oracle, mem, shared, cdest, cdata, dataAtCall, destAtCall, calls,
                 fault, seedVars, notHash>>

\* HashWrite without the write: rh.Write(data) left out.
HashWrite_omitted(w) ==
  /\ cpc[w] = "write"
  /\ cpc' = [cpc EXCEPT ![w] = "read"]
  /\ UNCHANGED <<oracle, hst, mem, shared, cdest, cdata, dataAtCall, destAtCall,
                 calls, fault, seedVars, notHash>>

\* rh.Write(data); sha3's Write panics once the sponge has been read from.
HashWrite(w) ==
  /\ cpc[w] = "write"
  /\ IF hst[InstanceOf(w)].squeezing
     THEN /\ cpc' = [cpc EXCEPT ![w] = "panic"]
          /\ fault' = [fault EXCEPT ![w] = "sha3: Write after Read"]
          /\ UNCHANGED hst
     ELSE /\ hst' = [hst EXCEPT ![InstanceOf(w)] = hashWrite(@, mem[cdata[w]])]
          /\ cpc' = [cpc EXCEPT ![w] = "read"]
          /\ UNCHANGED fault
  /\ UNCHANGED <<oracle, mem, shared, cdest, cdata, dataAtCall, destAtCall, calls,
                 seedVars, notHash>>

\* rh.Read(dest[:outputLen]); the slice expression panics on a dest shorter
\* than outputLen.
HashRead(w) ==
  /\ cpc[w] = "read"
  /\ LET h == hst[InstanceOf(w)]
         outputLen == Size(h.alg)
         dst == mem[cdest[w]]
     IN  IF outputLen > Len(dst)
         THEN /\ cpc' = [cpc EXCEPT ![w] = "panic"]
              /\ fault' = [fault EXCEPT ![w] = "slice bounds out of range"]
              /\ UNCHANGED <<oracle, hst, mem>>
         ELSE /\ oracle' = Squeezed(oracle, h)
              /\ mem' = [mem EXCEPT ![cdest[w]] =
                           readInto(dst, hashOutput(oracle', h, outputLen))]
              /\ hst' = [hst EXCEPT ![InstanceOf(w)] = hashRead(h, outputLen)]
              /\ cpc' = [cpc EXCEPT ![w] = "returned"]
              /\ UNCHANGED fault
  /\ UNCHANGED <<shared, cdest, cdata, dataAtCall, destAtCall, calls, seedVars, notHash>>

\* The call has returned; the caller goes on.
HashReturn(w) ==
  /\ cpc[w] = "returned"
  /\ cpc' = [cpc EXCEPT ![w] = "ready"]
  /\ calls' = [calls EXCEPT ![w] = @ + 1]
  /\ UNCHANGED <<oracle, hst, mem, shared, cdest, cdata, dataAtCall, destAtCall,
                 fault, seedVars, notHash>>

(***************************************************************************)
(* seedHash (util.go, lines 105-115)                                       *)
(***************************************************************************)
MaxBlock == 5
MaxEpochLength == 3

Blocks ==
  {U64(k) : k \in 0..MaxBlock}
    \cup {U64(29999), U64(30000), U64(60000), Pow2(31), Pow2(32), Pow2(63), MaxUint64}

EpochLengths ==
  {U64(k) : k \in 0..MaxEpochLength} \cup {U64(30000), Pow2(63)}

\* The model follows the loop for at most this many passes.
IterCap == MaxBlock

\* seedHash(block, epochLength) is called: seed := make([]byte, 32).
SeedCall ==
  /\ seedPc = "idle"
  /\ cpc[1] = "new"
  /\ \E blk \in Blocks, len \in EpochLengths :
       /\ block' = blk
       /\ epochLength' = len
  /\ mem' = [mem EXCEPT !.seed = Zeros(32)]
  /\ seedPc' = "check"
  /\ UNCHANGED <<oracle, hst, callerVars, intBits, seedI, seedFault, notHash>>

\* if block < epochLength { return seed }
SeedCheck ==
  /\ seedPc = "check"
  /\ seedPc' = IF Lt64(block, epochLength) THEN "done" ELSE "make"
  /\ UNCHANGED <<oracle, hst, mem, callerVars, block, epochLength, intBits, seedI,
                 seedFault, notHash>>

\* keccak256 := makeHasher(sha3.NewLegacyKeccak256()); i := 0
SeedMake ==
  /\ seedPc = "make"
  /\ hst' = [hst EXCEPT ![SeedInst] = NewHash("keccak256")]
  /\ IF HasRead("keccak256")
     THEN /\ seedPc' = "loop"
          /\ UNCHANGED seedFault
     ELSE /\ seedPc' = "panic"
          /\ seedFault' = "can't find Read method on hash"
  /\ seedI' = 0
  /\ UNCHANGED <<oracle, mem, callerVars, block, epochLength, intBits, notHash>>

\* i < int(block/epochLength)
seedLoopTest == LessThanInt(seedI, Div64(block, epochLength))

\* The loop condition is evaluated; block/epochLength panics on a zero divisor.
SeedLoop ==
  /\ seedPc = "loop"
  /\ IF epochLength = U64(0)
     THEN /\ seedPc' = "panic"
          /\ seedFault' = "integer divide by zero"
     ELSE /\ seedLoopTest => seedI < IterCap
          /\ seedPc' = IF seedLoopTest THEN "reset" ELSE "done"
          /\ UNCHANGED seedFault
  /\ UNCHANGED <<oracle, hst, mem, callerVars, block, epochLength, intBits, seedI,
                 notHash>>

\* keccak256(seed, seed): rh.Reset()
SeedReset ==
  /\ seedPc = "reset"
  /\ hst' = [hst EXCEPT ![SeedInst] = hashReset(@)]
  /\ seedPc' = "write"
  /\ UNCHANGED <<oracle, mem, callerVars, block, epochLength, intBits, seedI,
                 seedFault, notHash>>

\* keccak256(seed, seed): rh.Write(seed)
SeedWrite ==
  /\ seedPc = "write"
  /\ IF hst[SeedInst].squeezing
     THEN /\ seedPc' = "panic"
          /\ seedFault' = "sha3: Write after Read"
          /\ UNCHANGED hst
     ELSE /\ hst' = [hst EXCEPT ![SeedInst] = hashWrite(@, mem.seed)]
          /\ seedPc' = "read"
          /\ UNCHANGED seedFault
  /\ UNCHANGED <<oracle, mem, callerVars, block, epochLength, intBits, seedI, notHash>>

\* keccak256(seed, seed): rh.Read(seed[:outputLen]); then i++
SeedRead ==
  /\ seedPc = "read"
  /\ LET h == hst[SeedInst]
         outputLen == Size(h.alg)
     IN  IF outputLen > Len(mem.seed)
         THEN /\ seedPc' = "panic"
              /\ seedFault' = "slice bounds out of range"
              /\ UNCHANGED <<oracle, hst, mem, seedI>>
         ELSE /\ oracle' = Squeezed(oracle, h)
              /\ mem' = [mem EXCEPT !.seed =
                           readInto(@, hashOutput(oracle', h, outputLen))]
              /\ hst' = [hst EXCEPT ![SeedInst] = hashRead(h, outputLen)]
              /\ seedI' = seedI + 1
              /\ seedPc' = "loop"
              /\ UNCHANGED seedFault
  /\ UNCHANGED <<callerVars, block, epochLength, intBits, notHash>>

\* seedHash has returned its seed, or panicked: the program starts over.
SeedReturn ==
  /\ seedPc \in {"done", "panic"}
  /\ seedPc' = "idle"
  /\ block' = U64(0)
  /\ epochLength' = U64(0)
  /\ seedI' = 0
  /\ seedFault' = "none"
  /\ oracle' = <<>>
  /\ hst' = [hst EXCEPT ![SeedInst] = NoHasher]
  /\ mem' = [mem EXCEPT !.seed = <<>>]
  /\ UNCHANGED <<callerVars, intBits, notHash>>

(***************************************************************************)
(* One caller with a hasher of its own, or a call of seedHash              *)
(***************************************************************************)
TailBytes == 66

HashNext ==
  \/ MakeHasher(1)
  \/ HashCall(1, {"s", "t", "d"}, {"s", "t", "d", "e"})
  \/ HashReset(1)
  \/ HashWrite(1)
  \/ HashRead(1)
  \/ HashReturn(1)
  \/ SeedCall
  \/ SeedCheck
  \/ SeedMake
  \/ SeedLoop
  \/ SeedReset
  \/ SeedWrite
  \/ SeedRead
  \/ SeedReturn

\* The program runs on a build with a 32-bit or a 64-bit int.
InitHash ==
  /\ MathIdle /\ FnvIdle /\ BytesIdle /\ hostLE = TRUE
  /\ oracle = <<>>
  /\ hst = <<NoHasher, NoHasher, NoHasher>>
  /\ mem = [NoMem EXCEPT !.s = Zeros(32),
                         !.t = [k \in 1..TailBytes |-> Lit(k)],
                         !.d = <<Lit(1), Lit(2), Lit(3)>>]
  /\ shared = FALSE
  /\ cpc = <<"new", "off">>
  /\ CallersIdle
  /\ SeedIdle
  /\ intBits \in {32, 64}

SpecHash == InitHash /\ [][HashNext]_vars

(***************************************************************************)
(* Claims about seedHash and the hasher                                    *)
(***************************************************************************)
RECURSIVE ChainDepth(_)
\* How many times Keccak256 was applied to 32 zero bytes to give v (-1: v is
\* no such value).
ChainDepth(v) ==
  IF v = Zeros(32) THEN 0
  ELSE LET id == v[1][1]
       IN  IF /\ Len(v) = 32
              /\ id \in 1..Len(oracle)
              /\ oracle[id][1] = "keccak256"
              /\ v = Keccak256(oracle, oracle[id][2])
           THEN LET inner == ChainDepth(oracle[id][2])
                IN  IF inner < 0 THEN -1 ELSE inner + 1
           ELSE -1

\* C1: seedHash(b, L) returns 32 zero bytes when b < L, and otherwise the 32
\* zero bytes with digest256 applied exactly floor(b / L) times.
C1_SeedIsIteratedDigest ==
  seedPc = "done" =>
    IF Lt64(block, epochLength)
    THEN mem.seed = Zeros(32)
    ELSE /\ ChainDepth(mem.seed) >= 0
         /\ U64(ChainDepth(mem.seed)) = Div64(block, epochLength)

\* What seedHash does compute: the chain is as long as int(block / epochLength)
\* when that is positive, and empty when the conversion makes it negative.
SeedChainFollowsInt ==
  seedPc = "done" =>
    /\ Len(mem.seed) = 32
    /\ ChainDepth(mem.seed) = seedI
    /\ IF Lt64(block, epochLength) THEN seedI = 0
       ELSE LET q == Div64(block, epochLength)
                fits == \A i \in intBits..LongBits : q[i] = 0
            IN  /\ fits => U64(seedI) = q
                /\ q[intBits] = 1 => seedI = 0
    /\ (block = U64(30000) /\ epochLength = U64(30000))
         => mem.seed = Keccak256(oracle, Zeros(32))

NoReadFault == "can't find Read method on hash"

\* C2: the only fault is makeHasher's, raised exactly when the algorithm has no
\* Read method; seedHash returns a 32-byte value for every block and
\* epochLength; every call hash(dest, data) whose dest has at least
\* outputLength bytes completes normally.
C2_OnlyMakeHasherFaults ==
  /\ seedPc # "panic"
  /\ seedFault = "none"
  /\ seedPc = "done" => Len(mem.seed) = 32
  /\ \A w \in Callers :
       LET alg == hst[InstanceOf(w)].alg
       IN  /\ fault[w] = NoReadFault <=> (alg # "none" /\ ~HasRead(alg))
           /\ (cpc[w] = "panic" /\ fault[w] # NoReadFault)
                => Len(destAtCall[w]) < Size(alg)

\* The hasher's faults alone, seedHash left aside.
HasherFaultsOnly ==
  \A w \in Callers :
    LET alg == hst[InstanceOf(w)].alg
    IN  /\ fault[w] = NoReadFault <=> (alg # "none" /\ ~HasRead(alg))
        /\ (cpc[w] = "panic" /\ fault[w] # NoReadFault)
             => Len(destAtCall[w]) < Size(alg)
        /\ (cpc[w] = "panic") = (fault[w] # "none")

\* The call of w wrote the one-shot digest of the data it was called with.
WroteOwnDigest(w) ==
  LET alg == hst[InstanceOf(w)].alg
  IN  /\ DigestId(oracle, alg, dataAtCall[w]) # 0
      /\ SubSeq(mem[cdest[w]], 1, Size(alg)) = OneShot(oracle, alg, dataAtCall[w])

\* C3: with one caller at a time, after any sequence of earlier calls, the call
\* hash(dest, data) writes into dest[0..outputLength) exactly the one-shot digest
\* of data alone and leaves dest from index outputLength on unchanged, also when
\* dest and data are the same buffer.
C3_HashIsOneShotDigest ==
  cpc[1] = "returned" =>
    LET n == Size(hst[1].alg)
        dst == mem[cdest[1]]
    IN  /\ WroteOwnDigest(1)
        /\ Len(dst) = Len(destAtCall[1])
        /\ \A k \in (n + 1)..Len(dst) : dst[k] = destAtCall[1][k]

\* C3 witness: a second call on one hasher returned, with dest and data the same
\* buffer, longer than the digest, after a first call with other data.
C3_Witness ==
  /\ cpc[1] = "returned"
  /\ calls[1] = 1
  /\ cdest[1] = "t"
  /\ cdata[1] = "t"
  /\ hst[1].alg = "keccak256"
  /\ Len(oracle) = 2
  /\ mem.t[TailBytes] = Lit(TailBytes)

(***************************************************************************)
(* Two workers, each with a hasher of its own or both with one hasher      *)
(***************************************************************************)
OutName(w) == IF w = 1 THEN "o1" ELSE "o2"
InName(w) == IF w = 1 THEN "i1" ELSE "i2"

WorkersNext ==
  \E w \in Callers :
    \/ HashCall(w, {OutName(w)}, {InName(w)})
    \/ HashReset(w)
    \/ HashWrite(w)
    \/ HashRead(w)
    \/ HashReturn(w)

\* makeHasher has been called once per worker, or once for both.
InitWorkers ==
  /\ MathIdle /\ FnvIdle /\ BytesIdle /\ hostLE = TRUE
  /\ shared \in BOOLEAN
  /\ oracle = <<>>
  /\ hst = <<NewHash("keccak256"),
             IF shared THEN NoHasher ELSE NewHash("keccak256"),
             NoHasher>>
  /\ mem = [NoMem EXCEPT !.i1 = <<Lit(1)>>, !.i2 = <<Lit(2)>>,
                         !.o1 = Zeros(32), !.o2 = Zeros(32)]
  /\ cpc = <<"ready", "ready">>
  /\ CallersIdle
  /\ SeedIdle
  /\ intBits = 64

SpecWorkers == InitWorkers /\ [][WorkersNext]_vars

\* C4: when each worker calls only its own hasher, under every interleaving of
\* the reset / absorb / read steps each call writes the digest of its own data
\* (and none faults).
C4_OwnHasherPerWorker ==
  ~shared => \A w \in Callers :
               /\ cpc[w] # "panic"
               /\ cpc[w] = "returned" => WroteOwnDigest(w)

\* C4 witness: two workers share one hasher, and a call has returned with a
\* value that is not the digest of its own data.
C4_Witness ==
  /\ shared
  /\ \E w \in Callers : cpc[w] = "returned" /\ ~WroteOwnDigest(w)

====
